---- MODULE Spec2Model ----
(***************************************************************************)
(* Land-surface emissivity from NDVI (emissivity/emissivity.py).           *)
(*                                                                         *)
(* Numbers.  A raster element is a record [nan, num, cav]:                 *)
(*   nan  - the element is the floating-point NaN;                         *)
(*   num  - its rational value as a scaled integer: NDVI and red-band      *)
(*          rasters are held in tenths, fractional vegetation cover in     *)
(*          ninths, emissivity rasters in 1/90000ths (the least scale in   *)
(*          which every formula of the module is an integer);              *)
(*   cav  - the set of fractional-vegetation-cover values f for which the  *)
(*          term cavity_effect(f) is added to num.  cavity_effect lives in *)
(*          emissivity/utils.py and is kept as an uninterpreted term.      *)
(* Scalar model constants (emissivity_soil, emissivity_veg) are held in    *)
(* 1/10000ths.  Arithmetic is exact; rounding of IEEE doubles is not       *)
(* modelled.                                                               *)
(***************************************************************************)
EXTENDS Integers, Sequences, FiniteSets, TLC

VARIABLES
    ndvi,       \* the caller's NDVI array
    red_band,   \* the caller's red-band array, or None
    obj,        \* the model object the caller constructed, or NoObj
    heap,       \* the arrays allocated for obj; obj.emissivity and ret are positions in it
    ret,        \* the array the caller holds from the latest successful invocation, or 0
    built,      \* the class the caller constructed ("none" before) and the constructor's error
    results,    \* per invocation of obj: its outcome and the raster as it was returned
    facade      \* outcome of the latest Emissivity(ndvi, red_band)(method)

vars == <<ndvi, red_band, obj, heap, ret, built, results, facade>>

----------------------------------------------------------------------------
(* Bounds of the model *)

\* rasters have one row and 1..MaxCols columns
MaxCols == 2
\* invocations of one model object
MaxCalls == 2

----------------------------------------------------------------------------
(* Floating-point elements *)

NaN == [nan |-> TRUE, num |-> 0, cav |-> {}]

Num(x) == [nan |-> FALSE, num |-> x, cav |-> {}]

isnan(v) == v.nan

\* a + b
Add(a, b) ==
    IF a.nan \/ b.nan THEN NaN
    ELSE [nan |-> FALSE, num |-> a.num + b.num, cav |-> a.cav \cup b.cav]

\* comparisons of an element with a number; every comparison with NaN is false
Ge(v, c) == ~v.nan /\ v.num >= c
Gt(v, c) == ~v.nan /\ v.num > c
Le(v, c) == ~v.nan /\ v.num <= c
Lt(v, c) == ~v.nan /\ v.num < c

----------------------------------------------------------------------------
(* Arrays: [none, shape, data]; data is the row-major sequence of elements *)

None == [none |-> TRUE, shape |-> <<>>, data |-> <<>>]

Array(sh, d) == [none |-> FALSE, shape |-> sh, data |-> d]

Indices(a) == 1..Len(a.data)

\* np.zeros_like
zeros_like(a) == Array(a.shape, [i \in Indices(a) |-> Num(0)])

\* a[idx] = value[idx], for the positions idx and a raster of values
Scatter(a, idx, value) ==
    Array(a.shape, [i \in Indices(a) |-> IF i \in idx THEN value[i] ELSE a.data[i]])

\* a[idx] = c, for the positions idx and one element c
Fill(a, idx, c) ==
    Array(a.shape, [i \in Indices(a) |-> IF i \in idx THEN c ELSE a.data[i]])

\* np.where(mask): the positions where the boolean raster is true
where(mask) == {i \in DOMAIN mask : mask[i]}

----------------------------------------------------------------------------
(* emissivity/utils.py *)

\* fractional_vegetation_cover(ndvi): a raster in [0, 1] (here in ninths),
\* increasing in NDVI and saturating at the bare-soil (0.2) and full-canopy
\* (0.5) end points; NaN in, NaN out
fvc_of(n) ==
    LET t == IF n < 2 THEN 0 ELSE IF n > 5 THEN 3 ELSE n - 2
    IN  t * t

fractional_vegetation_cover(nd) ==
    Array(nd.shape, [i \in Indices(nd) |->
                        IF nd.data[i].nan THEN NaN ELSE Num(fvc_of(nd.data[i].num))])

\* cavity_effect(fvc): a pure function of the FVC raster alone, kept as the
\* uninterpreted term cavity_effect(f) of each element; NaN in, NaN out
cavity_effect(fvc) ==
    Array(fvc.shape, [i \in Indices(fvc) |->
                         IF fvc.data[i].nan THEN NaN
                         ELSE [nan |-> FALSE, num |-> 0, cav |-> {fvc.data[i].num}]])

----------------------------------------------------------------------------
(* Program constants, in 1/10000ths *)

MonoSoil == 9700
MonoVeg == 9900
NBEMSoil == 9668
NBEMVeg == 9863
GopinadhSoil == 9668
GopinadhVeg == 9747

EMISSIVITY_METHODS == {"avdan", "xiaolei", "gopinadh"}

\* a scalar constant as an emissivity element
Scalar(c) == Num(9 * c)

----------------------------------------------------------------------------
(* class EmissivityParent *)

NoObj == [kind |-> "none"]

\* __init__ of the three subclasses: the parent's __init__ and the two constants
EmissivityParent_init(kind, nd, red, h) ==
    IF Len(nd.shape) # 2
    THEN [err |-> "invalid-shape", self |-> NoObj, heap |-> h]
    ELSE [err |-> "",
          self |-> [kind |-> kind,
                    ndvi |-> nd,
                    red_band |-> red,
                    emissivity |-> Len(h) + 1,
                    nan_mask |-> [i \in Indices(nd) |-> isnan(nd.data[i])],
                    emissivity_soil |-> CASE kind = "mono" -> MonoSoil
                                          [] kind = "nbem" -> NBEMSoil
                                          [] OTHER -> GopinadhSoil,
                    emissivity_veg |-> CASE kind = "mono" -> MonoVeg
                                         [] kind = "nbem" -> NBEMVeg
                                         [] OTHER -> GopinadhVeg],
          heap |-> Append(h, zeros_like(nd))]

\* the classifier with 0.2 counted as bare soil too
get_land_surface_mask_closed(self) ==
    [baresoil |-> [i \in Indices(self.ndvi) |->
                      Ge(self.ndvi.data[i], -10) /\ Le(self.ndvi.data[i], 2)],
     vegetation |-> [i \in Indices(self.ndvi) |->
                      Gt(self.ndvi.data[i], 5) /\ Le(self.ndvi.data[i], 10)],
     mixed |-> [i \in Indices(self.ndvi) |->
                      Ge(self.ndvi.data[i], 2) /\ Le(self.ndvi.data[i], 5)]]

get_land_surface_mask(self) ==
    [baresoil |-> [i \in Indices(self.ndvi) |->
                      Ge(self.ndvi.data[i], -10) /\ Lt(self.ndvi.data[i], 2)],
     vegetation |-> [i \in Indices(self.ndvi) |->
                      Gt(self.ndvi.data[i], 5) /\ Le(self.ndvi.data[i], 10)],
     mixed |-> [i \in Indices(self.ndvi) |->
                      Ge(self.ndvi.data[i], 2) /\ Le(self.ndvi.data[i], 5)]]

get_landcover_mask_indices(self) ==
    LET masks == get_land_surface_mask(self)
    IN  [baresoil |-> where(masks.baresoil),
         vegetation |-> where(masks.vegetation),
         mixed |-> where(masks.mixed)]

compute_fvc(self) == fractional_vegetation_cover(self.ndvi)

compute_cavity_effect(self) == cavity_effect(compute_fvc(self))

----------------------------------------------------------------------------
(* _compute_emissivity of the three models.  Each returns                  *)
(*   err    - "" or the failed assertion,                                  *)
(*   self   - the object afterwards, heap - the arrays afterwards,         *)
(*   emm    - the array returned (a position of heap),                     *)
(*   steps  - which of classifier, fvc, cavity were evaluated,             *)
(*   classes - the land-cover positions the classifier gave, if evaluated, *)
(*   wrote  - the positions of the returned array that were assigned.      *)
(***************************************************************************)

NoClasses == [baresoil |-> {}, vegetation |-> {}, mixed |-> {}]

\* 0.004 * ((ndvi - 0.2) / (0.5 - 0.2))**2 + 0.986
\* the mixed formula without the square
MonoMixed_linear(v) == IF v.nan THEN NaN ELSE Num(40 * (v.num - 2) + 88740)

MonoMixed(v) == IF v.nan THEN NaN ELSE Num(40 * (v.num - 2) * (v.num - 2) + 88740)

ComputeMonoWindowEmissivity_compute(self, h) ==
    LET idx == get_landcover_mask_indices(self)
        e0 == h[self.emissivity]
        e1 == Fill(e0, idx.baresoil, Scalar(self.emissivity_soil))
        e2 == Fill(e1, idx.vegetation, Scalar(self.emissivity_veg))
        e3 == Scatter(e2, idx.mixed, [i \in Indices(self.ndvi) |-> MonoMixed(self.ndvi.data[i])])
        e4 == Fill(e3, where(self.nan_mask), NaN)
    IN  [err |-> "", self |-> self,
         heap |-> [h EXCEPT ![self.emissivity] = e4],
         emm |-> self.emissivity,
         steps |-> {"classifier"}, classes |-> idx,
         wrote |-> idx.baresoil \cup idx.vegetation \cup idx.mixed \cup where(self.nan_mask)]

\* 0.973 - 0.047 * red_band
NBEMBaresoil(r) == IF r.nan THEN NaN ELSE Num(87570 - 423 * r.num)

\* emissivity_veg * fvc + emissivity_soil * (1 - fvc) + cavity
NBEMMixed(self, f, c) ==
    Add(IF f.nan THEN NaN
        ELSE Num(self.emissivity_veg * f.num + self.emissivity_soil * (9 - f.num)),
        c)

\* emissivity_veg + cavity
NBEMVegetation(self, c) == Add(Scalar(self.emissivity_veg), c)

\* the NBEM model asserting the red band only after its vegetation write
ComputeEmissivityNBEM_compute_late(self, h) ==
    LET idx == get_landcover_mask_indices(self)
        fractional_veg_cover == compute_fvc(self)
        cavity_effect_10 == compute_cavity_effect(self)
        e0 == h[self.emissivity]
        e1 == Scatter(e0, idx.vegetation,
                      [i \in Indices(self.ndvi) |->
                          NBEMVegetation(self, cavity_effect_10.data[i])])
    IN  IF self.red_band.none
        THEN [err |-> "missing-input", self |-> self,
              heap |-> [h EXCEPT ![self.emissivity] = e1], emm |-> 0,
              steps |-> {"classifier", "fvc", "cavity"}, classes |-> idx,
              wrote |-> idx.vegetation]
        ELSE
        LET e2 == Scatter(e1, idx.baresoil, [i \in Indices(self.ndvi) |-> NBEMBaresoil(self.red_band.data[i])])
            e3 == Scatter(e2, idx.mixed,
                          [i \in Indices(self.ndvi) |->
                          NBEMMixed(self, fractional_veg_cover.data[i], cavity_effect_10.data[i])])
            e4 == Fill(e3, where(self.nan_mask), NaN)
        IN  [err |-> "", self |-> self,
             heap |-> [h EXCEPT ![self.emissivity] = e4],
             emm |-> self.emissivity,
             steps |-> {"classifier", "fvc", "cavity"}, classes |-> idx,
             wrote |-> idx.baresoil \cup idx.vegetation \cup idx.mixed
                       \cup where(self.nan_mask)]

ComputeEmissivityNBEM_compute(self, h) ==
    IF self.red_band.none
    THEN [err |-> "missing-input", self |-> self, heap |-> h, emm |-> 0,
          steps |-> {}, classes |-> NoClasses, wrote |-> {}]
    ELSE
    LET idx == get_landcover_mask_indices(self)
        fractional_veg_cover == compute_fvc(self)
        cavity_effect_10 == compute_cavity_effect(self)
        e0 == h[self.emissivity]
        e1 == Scatter(e0, idx.baresoil, [i \in Indices(self.ndvi) |-> NBEMBaresoil(self.red_band.data[i])])
        e2 == Scatter(e1, idx.mixed,
                      [i \in Indices(self.ndvi) |->
                          NBEMMixed(self, fractional_veg_cover.data[i], cavity_effect_10.data[i])])
        e3 == Scatter(e2, idx.vegetation,
                      [i \in Indices(self.ndvi) |->
                          NBEMVegetation(self, cavity_effect_10.data[i])])
        e4 == Fill(e3, where(self.nan_mask), NaN)
    IN  [err |-> "", self |-> self,
         heap |-> [h EXCEPT ![self.emissivity] = e4],
         emm |-> self.emissivity,
         steps |-> {"classifier", "fvc", "cavity"}, classes |-> idx,
         wrote |-> idx.baresoil \cup idx.vegetation \cup idx.mixed \cup where(self.nan_mask)]

\* emissivity_soil * (1 - fvc) + emissivity_veg * fvc
GopinadhBlend(self, f) ==
    IF f.nan THEN NaN
    ELSE Num(self.emissivity_soil * (9 - f.num) + self.emissivity_veg * f.num)

\* the Gopinadh model writing the blend at the classified pixels only
ComputeEmissivityGopinadh_compute_masked(self, h) ==
    LET idx == get_landcover_mask_indices(self)
        fractional_veg_cover == compute_fvc(self)
        e0 == h[self.emissivity]
        e1 == Scatter(e0, idx.baresoil \cup idx.vegetation \cup idx.mixed,
                      [i \in Indices(self.ndvi) |->
                          GopinadhBlend(self, fractional_veg_cover.data[i])])
        e2 == Fill(e1, where(self.nan_mask), NaN)
    IN  [err |-> "", self |-> self,
         heap |-> [h EXCEPT ![self.emissivity] = e2],
         emm |-> self.emissivity,
         steps |-> {"fvc"}, classes |-> NoClasses,
         wrote |-> idx.baresoil \cup idx.vegetation \cup idx.mixed \cup where(self.nan_mask)]

ComputeEmissivityGopinadh_compute(self, h) ==
    LET fractional_veg_cover == compute_fvc(self)
        e0 == Array(fractional_veg_cover.shape,
                    [i \in Indices(fractional_veg_cover) |->
                        GopinadhBlend(self, fractional_veg_cover.data[i])])
        e1 == Fill(e0, where(self.nan_mask), NaN)
        new == Len(h) + 1
    IN  [err |-> "", self |-> [self EXCEPT !.emissivity = new],
         heap |-> Append(h, e1),
         emm |-> new,
         steps |-> {"fvc"}, classes |-> NoClasses,
         wrote |-> Indices(e1)]

compute_emissivity(self, h) ==
    CASE self.kind = "mono" -> ComputeMonoWindowEmissivity_compute(self, h)
      [] self.kind = "nbem" -> ComputeEmissivityNBEM_compute(self, h)
      [] OTHER -> ComputeEmissivityGopinadh_compute(self, h)

\* __call__ comparing the shapes only for the model that reads the red band
EmissivityParent_call_nbem_only(self, h) ==
    IF self.kind = "nbem" /\ ~self.red_band.none /\ self.ndvi.shape # self.red_band.shape
    THEN [err |-> "shape-mismatch", self |-> self, heap |-> h, emm |-> 0,
          steps |-> {}, classes |-> NoClasses, wrote |-> {}]
    ELSE
    LET r == compute_emissivity(self, h)
    IN  IF r.err # "" THEN r
        ELSE [r EXCEPT !.heap[r.emm] = Fill(r.heap[r.emm], where(self.nan_mask), NaN)]

\* EmissivityParent.__call__
EmissivityParent_call(self, h) ==
    IF ~self.red_band.none /\ self.ndvi.shape # self.red_band.shape
    THEN [err |-> "shape-mismatch", self |-> self, heap |-> h, emm |-> 0,
          steps |-> {}, classes |-> NoClasses, wrote |-> {}]
    ELSE
    LET r == compute_emissivity(self, h)
    IN  IF r.err # "" THEN r
        ELSE [r EXCEPT !.heap[r.emm] = Fill(r.heap[r.emm], where(self.nan_mask), NaN)]

----------------------------------------------------------------------------
(* class Emissivity *)

\* get_method with the first two classes exchanged
get_method_swapped(method) ==
    CASE method = "avdan" -> "nbem"
      [] method = "xiaolei" -> "mono"
      [] method = "gopinadh" -> "gopinadh"
      [] OTHER -> "NotImplementedError"

get_method(method) ==
    CASE method = "avdan" -> "mono"
      [] method = "xiaolei" -> "nbem"
      [] method = "gopinadh" -> "gopinadh"
      [] OTHER -> "NotImplementedError"

NoFacade == [method |-> "none", err |-> "", raster |-> None,
             constructed |-> FALSE, got_method |-> FALSE]

\* Emissivity.__call__ without its assertion on the method name
Emissivity_call_unasserted(method, nd, red) ==
    LET compute_method == get_method(method)
    IN  IF compute_method = "NotImplementedError"
        THEN [method |-> method, err |-> "NotImplementedError", raster |-> None,
              constructed |-> FALSE, got_method |-> TRUE]
        ELSE
        LET c == EmissivityParent_init(compute_method, nd, red, <<>>)
        IN  IF c.err # ""
            THEN [method |-> method, err |-> c.err, raster |-> None,
                  constructed |-> FALSE, got_method |-> TRUE]
            ELSE
            LET r == EmissivityParent_call(c.self, c.heap)
            IN  [method |-> method, err |-> r.err,
                 raster |-> IF r.err = "" THEN r.heap[r.emm] ELSE None,
                 constructed |-> TRUE, got_method |-> TRUE]

\* Emissivity(nd, red).__call__(method)
Emissivity_call(method, nd, red) ==
    IF method \notin EMISSIVITY_METHODS
    THEN [method |-> method, err |-> "unknown-method", raster |-> None,
          constructed |-> FALSE, got_method |-> FALSE]
    ELSE
    LET compute_method == get_method(method)
    IN  IF compute_method = "NotImplementedError"
        THEN [method |-> method, err |-> "NotImplementedError", raster |-> None,
              constructed |-> FALSE, got_method |-> TRUE]
        ELSE
        LET c == EmissivityParent_init(compute_method, nd, red, <<>>)
        IN  IF c.err # ""
            THEN [method |-> method, err |-> c.err, raster |-> None,
                  constructed |-> FALSE, got_method |-> TRUE]
            ELSE
            LET r == EmissivityParent_call(c.self, c.heap)
            IN  [method |-> method, err |-> r.err,
                 raster |-> IF r.err = "" THEN r.heap[r.emm] ELSE None,
                 constructed |-> TRUE, got_method |-> TRUE]

----------------------------------------------------------------------------
(* Inputs *)

NdviValues == {NaN} \cup {Num(n) : n \in {-11, -10, 2, 3, 5, 10, 11}}

RedValues == {NaN, Num(2)}

WriteValues == {Num(45000)}

MethodNames == EMISSIVITY_METHODS \cup {"unknown"}

Kinds == {"mono", "nbem", "gopinadh"}

ArraysOf(sh, n, values) == {Array(sh, d) : d \in [1..n -> values]}

\* 2-D rasters of one row, and a 1-D and a 3-D array
NdviInputs ==
    UNION {ArraysOf(<<1, c>>, c, NdviValues) : c \in 1..MaxCols}
    \cup {Array(<<1>>, <<Num(1)>>), Array(<<1, 1, 1>>, <<Num(1)>>)}

\* None, every red band of the shape of nd, and one red band of each other shape
RedInputs(nd) ==
    {None}
    \cup ArraysOf(nd.shape, Len(nd.data), RedValues)
    \cup {Array(<<1, c>>, [i \in 1..c |-> Num(2)]) : c \in (1..MaxCols) \ {Len(nd.data)}}

----------------------------------------------------------------------------
(* The caller *)

Init ==
    /\ ndvi \in NdviInputs
    /\ red_band \in RedInputs(ndvi)
    /\ obj = NoObj
    /\ heap = <<>>
    /\ ret = 0
    /\ built = [kind |-> "none", err |-> ""]
    /\ results = <<>>
    /\ facade = NoFacade

\* model = ComputeMonoWindowEmissivity(ndvi, red_band), or one of the other two
Construct(kind) ==
    /\ built.kind = "none"
    /\ LET c == EmissivityParent_init(kind, ndvi, red_band, heap)
       IN  /\ obj' = c.self
           /\ heap' = c.heap
           /\ built' = [kind |-> kind, err |-> c.err]
    /\ UNCHANGED <<ndvi, red_band, ret, results, facade>>

\* emm = model()
Invoke ==
    /\ obj # NoObj
    /\ Len(results) < MaxCalls
    /\ LET r == EmissivityParent_call(obj, heap)
       IN  /\ obj' = r.self
           /\ heap' = r.heap
           /\ ret' = IF r.err = "" THEN r.emm ELSE ret
           /\ results' = Append(results,
                  [err |-> r.err,
                   raster |-> IF r.err = "" THEN r.heap[r.emm] ELSE None,
                   steps |-> r.steps,
                   classes |-> r.classes,
                   wrote |-> r.wrote])
    /\ UNCHANGED <<ndvi, red_band, built, facade>>

\* emm[p] = v, on the raster the caller was handed, while the caller has an
\* invocation left to see the effect
CallerWrite(p, v) ==
    /\ ret # 0
    /\ Len(results) < MaxCalls
    /\ p \in Indices(heap[ret])
    /\ heap' = [heap EXCEPT ![ret].data[p] = v]
    /\ UNCHANGED <<ndvi, red_band, obj, ret, built, results, facade>>

\* Emissivity(ndvi, red_band)(method)
Facade(method) ==
    /\ facade' = Emissivity_call(method, ndvi, red_band)
    /\ UNCHANGED <<ndvi, red_band, obj, heap, ret, built, results>>

\* a caller that constructs a model and invokes it, writing into the rasters it gets
Next ==
    \/ \E kind \in Kinds : Construct(kind)
    \/ Invoke
    \/ \E p \in 1..MaxCols, v \in WriteValues : CallerWrite(p, v)

Spec == Init /\ [][Next]_vars

\* a caller that uses the facade and, on the same inputs, a model of its own
NextFacade ==
    \/ \E kind \in Kinds : Construct(kind)
    \/ Invoke
    \/ \E method \in MethodNames : Facade(method)

SpecFacade == Init /\ [][NextFacade]_vars

----------------------------------------------------------------------------
(* Properties *)

\* C1: in every raster a model returns, a pixel is NaN if and only if the
\* NDVI pixel at the same position is NaN
C1_NaNIffNdviNaN ==
    \A k \in DOMAIN results :
        results[k].err = "" =>
            \A i \in Indices(ndvi) :
                isnan(results[k].raster.data[i]) <=> isnan(ndvi.data[i])

\* C2: the classifier puts a pixel with NDVI in [-1, 1] into exactly one of
\* baresoil, vegetation, mixed, and a pixel that is NaN or outside [-1, 1]
\* into none; -1 is baresoil, 0.2 and 0.5 are mixed, 1 is vegetation
C2_ClassifierPartition ==
    \A k \in DOMAIN results :
        "classifier" \in results[k].steps =>
            \A i \in Indices(ndvi) :
                LET v == ndvi.data[i]
                    c == results[k].classes
                    n == Cardinality({name \in {"baresoil", "vegetation", "mixed"} :
                                          i \in c[name]})
                    inrange == ~v.nan /\ v.num >= -10 /\ v.num <= 10
                IN  /\ n <= 1
                    /\ inrange => n = 1
                    /\ ~inrange => n = 0
                    /\ (~v.nan /\ v.num = -10) => i \in c.baresoil
                    /\ (~v.nan /\ v.num = 2) => i \in c.mixed
                    /\ (~v.nan /\ v.num = 5) => i \in c.mixed
                    /\ (~v.nan /\ v.num = 10) => i \in c.vegetation

\* a classification of a raster holding the boundary 0.2 and a NaN
C2_Witness ==
    \E k \in DOMAIN results :
        /\ "classifier" \in results[k].steps
        /\ \E i, j \in Indices(ndvi) :
              /\ ndvi.data[i] = Num(2) /\ i \in results[k].classes.mixed
              /\ ndvi.data[j] = NaN /\ j \notin results[k].classes.baresoil

\* C3: the mono-window model returns 0.97 at every pixel with NDVI in
\* [-1, 0.2), 0.99 at every pixel with NDVI in (0.5, 1] and
\* 0.004 * ((ndvi - 0.2) / 0.3)^2 + 0.986 at every pixel with NDVI in
\* [0.2, 0.5], with or without a red band
C3_MonoWindowValues ==
    \A k \in DOMAIN results :
        (obj.kind = "mono" /\ results[k].err = "") =>
            \A i \in Indices(ndvi) :
                LET v == ndvi.data[i]
                    e == results[k].raster.data[i]
                IN  /\ (~v.nan /\ v.num >= -10 /\ v.num < 2) => e = Num(87300)
                    /\ (~v.nan /\ v.num > 5 /\ v.num <= 10) => e = Num(89100)
                    /\ (~v.nan /\ v.num >= 2 /\ v.num <= 5) =>
                           e = Num(40 * (v.num - 2) * (v.num - 2) + 88740)

\* a second mono-window result, with a red band, holding a bare-soil pixel
\* next to a mixed pixel of NDVI 0.5
C3_Witness ==
    /\ obj.kind = "mono"
    /\ ~red_band.none
    /\ Len(results) = 2
    /\ results[2].err = ""
    /\ \E i, j \in Indices(ndvi) :
          /\ ndvi.data[i] = Num(-10) /\ results[2].raster.data[i] = Num(87300)
          /\ ndvi.data[j] = Num(5) /\ results[2].raster.data[j] = Num(89100)

\* C4: the Gopinadh model returns 0.9668 * (1 - FVC) + 0.9747 * FVC at every
\* pixel whose NDVI is not NaN, classified or not, without consulting the
\* classifier and leaving no such pixel at zero
C4_GopinadhBlendEverywhere ==
    \A k \in DOMAIN results :
        (obj.kind = "gopinadh" /\ results[k].err = "") =>
            /\ "classifier" \notin results[k].steps
            /\ \A i \in Indices(ndvi) :
                  ~isnan(ndvi.data[i]) =>
                      LET f == fractional_vegetation_cover(ndvi).data[i].num
                          e == results[k].raster.data[i]
                      IN  /\ e = Num(9668 * (9 - f) + 9747 * f)
                          /\ e # Num(0)

\* a second Gopinadh result over an NDVI above 1 next to a mixed NDVI
C4_Witness ==
    /\ obj.kind = "gopinadh"
    /\ Len(results) = 2
    /\ results[2].err = ""
    /\ \E i, j \in Indices(ndvi) :
          /\ ndvi.data[i] = Num(11) /\ results[2].raster.data[i] = Num(87723)
          /\ ndvi.data[j] = Num(3) /\ results[2].raster.data[j] = Num(87091)

\* C5: every invocation of the NBEM model without a red band fails with the
\* missing-input error before the classifier, the FVC, the cavity effect or
\* a write: the emissivity buffer is still all zeros
C5_NBEMNeedsRedBand ==
    (obj.kind = "nbem" /\ red_band.none) =>
        /\ heap[obj.emissivity] = zeros_like(ndvi)
        /\ ret = 0
        /\ \A k \in DOMAIN results :
              /\ results[k].err = "missing-input"
              /\ results[k].raster = None
              /\ results[k].steps = {}
              /\ results[k].wrote = {}

\* the NBEM model invoked without a red band over a vegetation pixel
C5_Witness ==
    /\ obj.kind = "nbem"
    /\ red_band.none
    /\ Len(results) >= 1
    /\ results[1].err = "missing-input"
    /\ \E i \in Indices(ndvi) : ndvi.data[i] = Num(10)

\* C6: every model invoked with a red band whose shape differs from the
\* NDVI's fails with the shape-mismatch error, returns no raster and has
\* written no emissivity pixel
C6_ShapeMismatch ==
    (obj # NoObj /\ ~red_band.none /\ red_band.shape # ndvi.shape) =>
        /\ heap[obj.emissivity] = zeros_like(ndvi)
        /\ ret = 0
        /\ \A k \in DOMAIN results :
              /\ results[k].err = "shape-mismatch"
              /\ results[k].raster = None
              /\ results[k].steps = {}
              /\ results[k].wrote = {}

\* the mono-window model invoked with a red band of another shape
C6_Witness ==
    /\ obj.kind = "mono"
    /\ ~red_band.none
    /\ red_band.shape # ndvi.shape
    /\ Len(results) >= 1
    /\ results[1].err = "shape-mismatch"
    /\ \E i \in Indices(ndvi) : ndvi.data[i] = Num(-10)

\* C7: the facade called with avdan, xiaolei or gopinadh has the outcome of
\* constructing and invoking the mono-window, NBEM or Gopinadh model on the
\* same inputs: the same raster or the same error
C7_FacadeEqualsDirect ==
    \A pair \in {<<"avdan", "mono">>, <<"xiaolei", "nbem">>, <<"gopinadh", "gopinadh">>} :
        (facade.method = pair[1] /\ built.kind = pair[2]) =>
            /\ built.err # "" => (facade.err = built.err /\ facade.raster = None)
            /\ Len(results) >= 1 =>
                  (facade.err = results[1].err /\ facade.raster = results[1].raster)

\* the facade and the NBEM model both returned a raster with a bare-soil pixel
C7_Witness ==
    /\ facade.method = "xiaolei"
    /\ built.kind = "nbem"
    /\ Len(results) >= 1
    /\ results[1].err = ""
    /\ facade.err = ""
    /\ \E i \in Indices(ndvi) :
          /\ ndvi.data[i] = Num(-10)
          /\ facade.raster.data[i] = Num(86724)

\* C8: the facade called with a method name outside the three fails with the
\* unknown-method error before get_method, before a model is constructed and
\* before an input is validated; get_method's NotImplementedError is never raised
C8_UnknownMethodFirst ==
    /\ facade.err # "NotImplementedError"
    /\ facade.method \notin (EMISSIVITY_METHODS \cup {"none"}) =>
          /\ facade.err = "unknown-method"
          /\ facade.raster = None
          /\ ~facade.constructed
          /\ ~facade.got_method

\* the facade called with an unknown name on an NDVI that is not 2-D
C8_Witness ==
    /\ facade.method = "unknown"
    /\ facade.err = "unknown-method"
    /\ Len(ndvi.shape) # 2

\* C9: every later result of a model object equals its first result as that
\* was returned, whatever the caller wrote into the rasters in between
C9_LaterResultEqualsFirst ==
    \A k \in DOMAIN results :
        results[k].err = "" => results[k].raster = results[1].raster

\* C10: in every raster the mono-window or the NBEM model returns, a pixel
\* whose NDVI is a number outside [-1, 1] is exactly 0
C10_OutOfRangeIsZero ==
    \A k \in DOMAIN results :
        (obj.kind \in {"mono", "nbem"} /\ results[k].err = "") =>
            \A i \in Indices(ndvi) :
                LET v == ndvi.data[i]
                IN  (~v.nan /\ (v.num < -10 \/ v.num > 10)) =>
                        results[k].raster.data[i] = Num(0)

====
